---- MODULE Spec2Model ----
(***************************************************************************)
(* A model of raggy's bounded concurrency runner (run_concurrent_tasks),   *)
(* the two batched upsert orchestrators (TurboPuffer.upsert_batched and    *)
(* Chroma.upsert_batched), the token chunker (split_text), the excerpt     *)
(* builder (document_to_excerpts), the URL, sitemap, PDF and GitHub        *)
(* loaders, the synchronous TurboPuffer operations (upsert, query, reset,  *)
(* ok, query_namespace), the embedding helper with its retry policy        *)
(* (create_openai_embeddings), the tokenizer round trip (slice_tokens),    *)
(* the issue pagination (GitHubIssueLoader._get_issues) and the counters   *)
(* of the documentation search tool (search_prefect).                      *)
(*                                                                         *)
(* One client invokes one operation (or, on a TurboPuffer client, a short  *)
(* sequence of synchronous ones); the event loop then interleaves the      *)
(* steps of the coroutines that operation started.  Embedding calls and    *)
(* store calls are external: each may succeed or fail.  The caller may     *)
(* cancel a running asynchronous operation.                                *)
(***************************************************************************)
EXTENDS Integers, Sequences, FiniteSets, TLC

\* ------------------------------------------------------------- bounds
MaxTasks == 4
MaxConcurrent == 3
MaxDocs == 5
MaxBatchSize == 3
MaxTokens == 7
MaxChunkSize == 4
\* chunk_overlap and last_chunk_threshold are drawn from the multiples of
\* 1/FracDen (and, for chunk_overlap, one step outside [0,1] on each side).
FracDen == 4
\* a chunk size on which the default overlap of 0.1 is a whole token, tried
\* on a text of 2 * DecimalChunk + 1 tokens
DecimalChunk == 10
\* document_to_excerpts: tokens of the document text and chunk_tokens.
MaxExcerptTokens == 3
MaxExcerptChunk == 2
\* The loaders: len(self.urls).
MaxUrls == 2
\* The largest input whose failed upsert_batched run is run a second time.
MaxRetryDocs == 2
\* The synchronous operations made on one TurboPuffer client.
MaxOps == 3
\* slice_tokens: characters of the text, and the largest n_tokens
MaxTextLen == 3
MaxSliceTokens == 4
\* _get_issues: n_issues, the issues of the repository, per_page
MaxIssues == 4
MaxRepoIssues == 4
MaxPerPage == 3
\* search_prefect: calls the server runs, concurrently
MaxCalls == 2

VARIABLES
    call,            \* the operation the client invoked ("none" before it)
    callerCancelled, \* the caller has cancelled the running operation
    \* run_concurrent_tasks
    taskForm,        \* what the caller put in `tasks`: "awaitable" | "callable"
    nTasks,          \* len(tasks)
    max_concurrent,  \* the max_concurrent argument
    semaphore,       \* value of anyio.Semaphore(max_concurrent)
    tstate,          \* per _run_task child: spawned | running | done | failed | cancelled
    results,         \* the results list (task indices, in append order)
    tgCancelled,     \* the task group's cancel scope has been cancelled
    rpc,             \* idle | running | returned | raised | cancelled
    \* upsert_batched
    nDocs,           \* len(documents); document k is position k of the input
    batch_size,      \* the batch_size argument
    skip_errors,     \* the caller passed skip_errors=True
    upc,             \* idle | running | returned | raised | cancelled
    groupStart,      \* TurboPuffer: the loop variable i of the gather loop
    bstate,          \* per batch: notstarted | embedding | done | embed_failed |
                     \*            write_failed | cancelled
    embedCalls,      \* per batch: create_openai_embeddings calls made
    writes,          \* the write calls issued to the store, in order
    \* split_text
    stIn,            \* the arguments of split_text
    stOut,           \* its outcome: [error |-> ..., chunks |-> Seq(Seq(position))]
    \* the store namespace
    ns,              \* the rows it holds: records [id, doc]
    nsExists,        \* the namespace exists in the store
    run,             \* 1 for the first upsert_batched run, 2 for its re-run
    orphans,         \* batches of the failed first run whose _upsert is still going
    \* document_to_excerpts
    dte,             \* its arguments: [id, n, chunk_tokens, overlap, excerpt_template],
                     \* the loader that made the call and that loader's token budget
    dpc,             \* idle | running | returned | raised
    estate,          \* per chunk's _create_excerpt: pending | rendering | done | kw_failed
    eres,            \* per chunk: the Document its _create_excerpt returned
    eorder,          \* the chunk indices in the order their _create_excerpt returned
    excerpts,        \* the list document_to_excerpts returned
    \* URLLoader.load / SitemapLoader._get_loader + load
    loader,          \* [kind, nUrls, excerpt_template, chunk_tokens, failing:
                     \*  the urls whose load_url raises]
    lpc,             \* idle | running | returned | raised
    loaded,          \* the excerpts load() returned: records [url, template]
    \* the synchronous TurboPuffer operations
    opCount,         \* how many of them the client has made
    last,            \* the last operation made: its arguments and its outcome
    \* create_openai_embeddings
    embIn,           \* its input_: [type |-> "str" | "list" | "other", n |-> texts]
    attempts,        \* the outcome of each attempt tenacity has made, in order
    epc,             \* idle | running | returned | raised
    eout,            \* what the call returned, or the exception it raised
    \* slice_tokens
    slIn,            \* its arguments: [text |-> Seq(character), n_tokens |-> Nat]
    slOut,           \* the text it returned
    \* GitHubIssueLoader._get_issues
    gi,              \* [n_issues, per_page, repo: the issues the repository has]
    issues,          \* the issues list (issue k is item k of the server's list)
    page,            \* the loop's page counter
    gpc,             \* idle | running | returned | raised
    \* search_prefect and the metrics collector
    spc,             \* per call of search_prefect: where it is
    counters,        \* metrics._counters
    lock,            \* metrics._lock: the call holding it, 0 when free
    tmp              \* per call: the value self._counters.get(counter, 0) gave it

runnerVars == <<taskForm, nTasks, max_concurrent, semaphore, tstate, results,
                tgCancelled, rpc>>
upsertVars == <<nDocs, batch_size, skip_errors, upc, groupStart, bstate,
                embedCalls, writes>>
splitVars == <<stIn, stOut>>
storeVars == <<ns, nsExists, run, orphans>>
excerptVars == <<dte, dpc, estate, eres, eorder, excerpts>>
loaderVars == <<loader, lpc, loaded>>
sessionVars == <<opCount, last>>
embedVars == <<embIn, attempts, epc, eout>>
tokenVars == <<slIn, slOut>>
issueVars == <<gi, issues, page, gpc>>
metricVars == <<spc, counters, lock, tmp>>
lateVars == <<embedVars, tokenVars, issueVars, metricVars>>
restVars == <<excerptVars, loaderVars, sessionVars, lateVars>>
oldVars == <<callerCancelled, runnerVars, upsertVars, splitVars, storeVars,
             excerptVars, loaderVars, sessionVars>>
vars == <<call, callerCancelled, runnerVars, upsertVars, splitVars, storeVars,
          restVars>>

Min(a, b) == IF a < b THEN a ELSE b

\* ------------------------------------------------ run_concurrent_tasks

\* `async with semaphore`: the semaphore admits a child while its value is positive.
CanAcquireAlways(v) == TRUE
CanAcquire(v) == v > 0

\* A cancelled task group lets none of its children past a suspension
\* point: a child waiting there is cancelled instead of resumed.
RunsOn(cancelled) == ~cancelled

\* results.append(result), with the index of the unit for its result.
AppendResultAtIndex(res, i) ==
    LET k == Cardinality({j \in 1..Len(res) : res[j] < i})
    IN  SubSeq(res, 1, k) \o <<i>> \o SubSeq(res, k + 1, Len(res))
AppendResult(res, i) == Append(res, i)

Terminal == {"done", "failed", "cancelled"}

\* The state run_concurrent_tasks sets up before the task group runs its children.
StartRunner(n, form, m) ==
    /\ taskForm' = form
    /\ nTasks' = n
    /\ max_concurrent' = m
    /\ semaphore' = m
    /\ tstate' = [i \in 1..n |-> "spawned"]
    /\ results' = <<>>
    /\ tgCancelled' = FALSE
    /\ rpc' = "running"

\* A direct call of run_concurrent_tasks with n units of work.
RunConcurrentTasks(n, form, m) ==
    /\ call = "none"
    /\ call' = "run_concurrent_tasks"
    /\ StartRunner(n, form, m)
    /\ UNCHANGED <<callerCancelled, upsertVars, splitVars, storeVars, restVars>>

\* Child i enters `async with semaphore`.
Acquire(i) ==
    /\ rpc = "running"
    /\ tstate[i] = "spawned"
    /\ RunsOn(tgCancelled)
    /\ CanAcquire(semaphore)
    /\ semaphore' = semaphore - 1
    /\ tstate' = [tstate EXCEPT ![i] = "running"]
    /\ UNCHANGED <<call, callerCancelled, taskForm, nTasks, max_concurrent, results, tgCancelled,
                   rpc, upsertVars, splitVars, storeVars, restVars>>

\* `await task` on a function object: TypeError, raised inside the semaphore
\* block; the semaphore is released and the task group is cancelled.
TaskTypeError(i) ==
    /\ rpc = "running"
    /\ tstate[i] = "running"
    /\ taskForm = "callable"
    /\ semaphore' = semaphore + 1
    /\ tstate' = [tstate EXCEPT ![i] = "failed"]
    /\ tgCancelled' = TRUE
    /\ UNCHANGED <<call, callerCancelled, taskForm, nTasks, max_concurrent, results, rpc,
                   upsertVars, splitVars, storeVars, restVars>>

\* The unit's own work has finished: for a Chroma batch, its _upsert body.
BodySucceeded(i) ==
    IF call = "chroma.upsert_batched" THEN bstate[i] = "done" ELSE TRUE

BodyFailed(i) ==
    IF call = "chroma.upsert_batched"
    THEN bstate[i] \in {"embed_failed", "write_failed"}
    ELSE TRUE

\* `result = await task; results.append(result)`, then the semaphore is released.
TaskComplete(i) ==
    /\ rpc = "running"
    /\ tstate[i] = "running"
    /\ taskForm = "awaitable"
    /\ RunsOn(tgCancelled)
    /\ BodySucceeded(i)
    /\ results' = AppendResult(results, i)
    /\ semaphore' = semaphore + 1
    /\ tstate' = [tstate EXCEPT ![i] = "done"]
    /\ UNCHANGED <<call, callerCancelled, taskForm, nTasks, max_concurrent, tgCancelled, rpc,
                   upsertVars, splitVars, storeVars, restVars>>

\* The awaited unit raises: nothing is appended, the semaphore is released on
\* the way out and the task group cancels its other children.
TaskFail(i) ==
    /\ rpc = "running"
    /\ tstate[i] = "running"
    /\ taskForm = "awaitable"
    /\ RunsOn(tgCancelled)
    /\ BodyFailed(i)
    /\ semaphore' = semaphore + 1
    /\ tstate' = [tstate EXCEPT ![i] = "failed"]
    /\ tgCancelled' = TRUE
    /\ UNCHANGED <<call, callerCancelled, taskForm, nTasks, max_concurrent, results, rpc,
                   upsertVars, splitVars, storeVars, restVars>>

\* The cancellation of the task group reaches child i at its suspension point:
\* waiting for the semaphore, or inside it awaiting its unit.
TaskCancelled(i) ==
    /\ rpc = "running"
    /\ tgCancelled
    /\ tstate[i] \in {"spawned", "running"}
    /\ semaphore' = IF tstate[i] = "running" THEN semaphore + 1 ELSE semaphore
    /\ tstate' = [tstate EXCEPT ![i] = "cancelled"]
    /\ UNCHANGED <<call, callerCancelled, taskForm, nTasks, max_concurrent, results, tgCancelled,
                   rpc, upsertVars, splitVars, storeVars, restVars>>

\* The caller cancels run_concurrent_tasks while it runs (a timeout around
\* the call, or the cancellation of the calling task, which may be awaiting
\* it inside Chroma.upsert_batched or a loader).  The cancellation enters at
\* the task group, whose scope is cancelled with it.
CallerCancel ==
    /\ ~callerCancelled
    /\ rpc = "running"
    /\ callerCancelled' = TRUE
    /\ tgCancelled' = TRUE
    /\ UNCHANGED <<call, taskForm, nTasks, max_concurrent, semaphore, tstate,
                   results, rpc, upsertVars, splitVars, storeVars, restVars>>

\* The task group's block exits once every child has ended: `return results`,
\* the children's exception, or the caller's cancellation.
RunnerExit ==
    /\ rpc = "running"
    /\ \A i \in 1..nTasks : tstate[i] \in Terminal
    /\ rpc' = IF callerCancelled THEN "cancelled"
              ELSE IF \E i \in 1..nTasks : tstate[i] # "done" THEN "raised"
              ELSE "returned"
    /\ UNCHANGED <<call, callerCancelled, taskForm, nTasks, max_concurrent, semaphore, tstate,
                   results, tgCancelled, upsertVars, splitVars, storeVars, restVars>>

\* ------------------------------------------------------ upsert_batched

\* len(range(0, n, bs)): the number of slices document_list[i : i + bs].
NumBatchesFloor(n, bs) == n \div bs
NumBatches(n, bs) == Cardinality({i \in 0..(n - 1) : i % bs = 0})

\* Batch b (counted from 1) is document_list[(b-1)*bs : (b-1)*bs + bs]:
\* the documents at positions BatchLo..BatchHi of the input.
BatchLo(b, bs) == (b - 1) * bs + 1
BatchHi(b, bs, n) == Min(b * bs, n)

\* batches[i : i + m], the group handed to one asyncio.gather (TurboPuffer).
InGroupWide(b, i, m) == b > i /\ b <= i + m + 1
InGroup(b, i, m) == b > i /\ b <= i + m

\* The indices of `batches`, the list the body of upsert_batched builds.
BatchSet == DOMAIN bstate

\* The _upsert coroutine of batch b has been started: by the gather of its
\* group (TurboPuffer), or by the runner awaiting it (Chroma).
Admitted(b) ==
    IF call = "tpuf.upsert_batched"
    THEN /\ ~skip_errors
         /\ upc \in {"running", "raised"}
         /\ InGroup(b, groupStart, max_concurrent)
    ELSE call = "chroma.upsert_batched" /\ taskForm = "awaitable"
         /\ tstate[b] = "running"

\* _upsert issues its write when its `await create_openai_embeddings(texts)`
\* returns: the batch's embedding call is the one outstanding.
CanWriteEarly(st) == st \in {"notstarted", "embedding"}
CanWrite(st) == st = "embedding"

\* The ids of the rows of a write are the ids of its documents
\* (`batch_ids = [doc.id for doc in batch]`), whichever run writes them.
RowIdFresh(d, r) == <<d, r>>
RowId(d, r) == d

\* The rows _upsert builds for batch b: one per document of the batch, made
\* of the document's id, its embedding and its text.
BatchRows(b, r) ==
    {[id |-> RowId(d, r), doc |-> d] :
        d \in BatchLo(b, batch_size)..BatchHi(b, batch_size, nDocs)}

\* create_openai_embeddings: `if len(embedding.data) == 1: return
\* embedding.data[0].embedding`, else the list of the vectors: one input text
\* gives one flat vector.
ReturnShape(n) == IF n = 1 THEN "vector" ELSE "list of vectors"

\* _upsert: `"vector": batch_vectors[i]` for the document d at index i of the
\* batch.  Indexing the list of vectors gives the vector of d; indexing a
\* flat vector gives one of its floats.
RowVector(shape, d) ==
    IF shape = "list of vectors" THEN <<"vector", d>> ELSE <<"float", d>>

\* The vector each row of a written batch carries.  Chroma hands what the
\* helper returned to collection.add as `embeddings`, whole.
WriteVectors(lo, hi) ==
    [d \in lo..hi |-> IF call = "tpuf.upsert_batched"
                      THEN RowVector(ReturnShape(hi - lo + 1), d)
                      ELSE <<"vector", d>>]

\* self.ns.write(upsert_rows=rows): a row replaces the stored row of its id.
StoreUpsert(stored, rows) ==
    {r \in stored : \A w \in rows : w.id # r.id} \cup rows

\* What a call leaves of the upsert state before any batch runs.  A call that
\* passes skip_errors fails at once with a TypeError (neither signature has
\* that parameter): the body does not run and no batch is built.
StartUpsert(n, bs, skip) ==
    /\ nDocs' = n
    /\ batch_size' = bs
    /\ skip_errors' = skip
    /\ groupStart' = 0
    /\ bstate' = [b \in 1..(IF skip THEN 0 ELSE NumBatches(n, bs)) |-> "notstarted"]
    /\ embedCalls' = [b \in 1..(IF skip THEN 0 ELSE NumBatches(n, bs)) |-> 0]
    /\ writes' = <<>>

TpufUpsertBatched(n, bs, m, skip) ==
    /\ call = "none"
    /\ call' = "tpuf.upsert_batched"
    /\ StartUpsert(n, bs, skip)
    /\ max_concurrent' = m
    /\ upc' = IF skip THEN "raised"
              ELSE IF NumBatches(n, bs) = 0 THEN "returned" ELSE "running"
    /\ UNCHANGED <<callerCancelled, taskForm, nTasks, semaphore, tstate, results,
                   tgCancelled, rpc, splitVars, storeVars, restVars>>

ChromaUpsertBatched(n, bs, m, skip) ==
    /\ call = "none"
    /\ call' = "chroma.upsert_batched"
    /\ StartUpsert(n, bs, skip)
    /\ IF skip
       THEN /\ upc' = "raised"
            /\ max_concurrent' = m
            /\ UNCHANGED <<taskForm, nTasks, semaphore, tstate, results,
                           tgCancelled, rpc>>
       ELSE /\ upc' = "running"
            /\ StartRunner(NumBatches(n, bs), "callable", m)
    /\ UNCHANGED <<callerCancelled, splitVars, storeVars, restVars>>

\* `await run_concurrent_tasks(tasks, ...)` ends as the runner ended.
ChromaAwaitRunner ==
    /\ call = "chroma.upsert_batched"
    /\ upc = "running"
    /\ rpc \in {"returned", "raised", "cancelled"}
    /\ upc' = IF callerCancelled THEN "cancelled" ELSE rpc
    /\ UNCHANGED <<call, callerCancelled, runnerVars, nDocs, batch_size, skip_errors, groupStart,
                   bstate, embedCalls, writes, splitVars, storeVars, restVars>>

\* _upsert of batch b runs up to `await create_openai_embeddings(texts)`.
BatchStart(b) ==
    /\ Admitted(b)
    /\ bstate[b] = "notstarted"
    /\ bstate' = [bstate EXCEPT ![b] = "embedding"]
    /\ embedCalls' = [embedCalls EXCEPT ![b] = @ + 1]
    /\ UNCHANGED <<call, callerCancelled, runnerVars, nDocs, batch_size, skip_errors, upc,
                   groupStart, writes, splitVars, storeVars, restVars>>

\* The embedding call of batch b raises: _upsert ends with that exception.
EmbedFail(b) ==
    /\ Admitted(b)
    /\ bstate[b] = "embedding"
    /\ bstate' = [bstate EXCEPT ![b] = "embed_failed"]
    /\ UNCHANGED <<call, callerCancelled, runnerVars, nDocs, batch_size, skip_errors, upc,
                   groupStart, embedCalls, writes, splitVars, storeVars, restVars>>

\* The embedding call of batch b returns its vectors and _upsert goes on,
\* without suspending, to self.ns.write(upsert_rows=rows) /
\* self.collection.upsert(**kwargs); the store accepts the write (ok) or raises.
EmbedReturnWrite(b, ok) ==
    /\ Admitted(b)
    /\ CanWrite(bstate[b])
    /\ ns' = IF ok THEN StoreUpsert(ns, BatchRows(b, run)) ELSE ns
    /\ nsExists' = IF ok THEN TRUE ELSE nsExists
    /\ writes' = Append(writes, [batch |-> b,
                                 lo |-> BatchLo(b, batch_size),
                                 hi |-> BatchHi(b, batch_size, nDocs),
                                 vectors |-> WriteVectors(
                                     BatchLo(b, batch_size),
                                     BatchHi(b, batch_size, nDocs))])
    /\ bstate' = [bstate EXCEPT ![b] = IF ok THEN "done" ELSE "write_failed"]
    /\ UNCHANGED <<call, callerCancelled, runnerVars, nDocs, batch_size,
                   skip_errors, upc, groupStart, embedCalls, splitVars, run,
                   orphans, restVars>>

GroupOf(i) == {b \in BatchSet : InGroup(b, i, max_concurrent)}

\* TurboPuffer: asyncio.gather of the current group returns, every _upsert of
\* the group having returned; the loop goes on to the next group or ends.
\* `await asyncio.gather(*[_upsert(...) for ... in batch_group])` returns
\* when every _upsert of the group has returned.
GatherReturnsOnFirst(group) == \E b \in group : bstate[b] = "done"
GatherReturns(group) == \A b \in group : bstate[b] = "done"

TpufGroupDone ==
    /\ call = "tpuf.upsert_batched"
    /\ upc = "running"
    /\ GatherReturns(GroupOf(groupStart))
    /\ groupStart' = groupStart + max_concurrent
    /\ upc' = IF groupStart + max_concurrent >= Len(bstate)
              THEN "returned" ELSE "running"
    /\ UNCHANGED <<call, callerCancelled, runnerVars, nDocs, batch_size, skip_errors, bstate,
                   embedCalls, writes, splitVars, storeVars, restVars>>

\* TurboPuffer: asyncio.gather (return_exceptions unset) hands the first
\* exception of the group to upsert_batched, which raises it.  The other
\* coroutines of the group are not cancelled.
TpufGatherRaise ==
    /\ call = "tpuf.upsert_batched"
    /\ upc = "running"
    /\ \E b \in GroupOf(groupStart) : bstate[b] \in {"embed_failed", "write_failed"}
    /\ upc' = "raised"
    /\ UNCHANGED <<call, callerCancelled, runnerVars, nDocs, batch_size, skip_errors, groupStart,
                   bstate, embedCalls, writes, splitVars, storeVars, restVars>>

\* asyncio.gather, cancelled, cancels each of its awaitables that has not
\* ended: the _upsert of every batch of the group that has not returned.
CancelledByGatherNone(b) == FALSE
CancelledByGather(b) ==
    /\ InGroup(b, groupStart, max_concurrent)
    /\ bstate[b] \in {"notstarted", "embedding"}

\* The caller cancels TurboPuffer.upsert_batched while it awaits the gather
\* of a group (a timeout around the call, or the cancellation of the calling
\* task).  The gather is cancelled and with it the group's unfinished
\* _upsert coroutines, none of which runs another step of its body;
\* upsert_batched ends with the CancelledError and its loop with it.
TpufCancel ==
    /\ call = "tpuf.upsert_batched"
    /\ upc = "running"
    /\ callerCancelled' = TRUE
    /\ bstate' = [b \in BatchSet |->
                    IF CancelledByGather(b) THEN "cancelled" ELSE bstate[b]]
    /\ upc' = "cancelled"
    /\ UNCHANGED <<call, runnerVars, nDocs, batch_size, skip_errors, groupStart,
                   embedCalls, writes, splitVars, storeVars, restVars>>

\* The caller runs TurboPuffer.upsert_batched again, with the same arguments,
\* after it raised.  The _upsert coroutines the failed run left going go on
\* beside the new run.
Retry ==
    /\ call = "tpuf.upsert_batched"
    /\ upc = "raised"
    /\ ~skip_errors
    /\ run = 1
    /\ nDocs <= MaxRetryDocs
    /\ run' = 2
    /\ orphans' = {b \in BatchSet : Admitted(b) /\ bstate[b] \in {"notstarted", "embedding"}}
    /\ StartUpsert(nDocs, batch_size, FALSE)
    /\ upc' = "running"
    /\ UNCHANGED <<call, callerCancelled, runnerVars, ns, nsExists, splitVars,
                   restVars>>

\* An _upsert the failed run left going ends: its embedding call or its
\* write fails, or (ok) it writes the rows of its batch.
OrphanEnds(b, ok) ==
    /\ call = "tpuf.upsert_batched"
    /\ b \in orphans
    /\ orphans' = orphans \ {b}
    /\ ns' = IF ok THEN StoreUpsert(ns, BatchRows(b, 1)) ELSE ns
    /\ nsExists' = IF ok THEN TRUE ELSE nsExists
    /\ UNCHANGED <<call, callerCancelled, runnerVars, upsertVars, run, splitVars,
                   restVars>>

\* ---------------------------------------------------------- split_text
\* The text is its token sequence tokenize(text), of n tokens; a chunk is the
\* sequence of the token positions (1..n) it holds, and the returned string
\* of a chunk is detokenize of the tokens at those positions.  A fraction is
\* <<numerator, denominator>>; None is the argument left out.

None == <<0, 0>>
DefaultChunkOverlap == <<1, 10>>
DefaultLastChunkThreshold == <<1, 4>>

\* `if chunk_overlap is None: chunk_overlap = 0.1`
EffOverlapZero(ov) == IF ov = None THEN <<0, 1>> ELSE ov
EffOverlap(ov) == IF ov = None THEN DefaultChunkOverlap ELSE ov
\* `if last_chunk_threshold is None: last_chunk_threshold = 0.25`
EffThreshold(th) == IF th = None THEN DefaultLastChunkThreshold ELSE th

\* `chunk_overlap < 0 or chunk_overlap > 1`
OverlapOutOfRange(ov) == ov[1] < 0 \/ ov[1] > ov[2]

\* chunk_size - int(chunk_overlap * chunk_size), for chunk_overlap >= 0
\* (int() of a non-negative number is its floor).
StrideAdd(cs, ov) == cs + ((ov[1] * cs) \div ov[2])
Stride(cs, ov) == cs - ((ov[1] * cs) \div ov[2])

\* tokens[i : j], as token positions (i, j counted from 0 as in the code).
Slice(i, j, n) == [k \in 1..(Min(j, n) - i) |-> i + k]

\* for i in range(0, len(tokens), step): chunks.append(tokens[i : i + chunk_size])
RECURSIVE Windows(_, _, _, _)
Windows(i, n, cs, step) ==
    IF i >= n THEN <<>>
    ELSE <<Slice(i, i + cs, n)>> \o Windows(i + step, n, cs, step)

\* len(chunks[-1][0]) < chunk_size * last_chunk_threshold
TailTooSmallOrEqual(len, cs, th) == len * th[2] <= cs * th[1]
TailTooSmall(len, cs, th) == len * th[2] < cs * th[1]

\* if len(chunks) > 1 and <tail too small>: chunks[-2][0].extend(chunks.pop(-1)[0])
MergeTail(chunks, cs, th) ==
    IF Len(chunks) > 1 /\ TailTooSmall(Len(chunks[Len(chunks)]), cs, th)
    THEN SubSeq(chunks, 1, Len(chunks) - 2)
         \o <<chunks[Len(chunks) - 1] \o chunks[Len(chunks)]>>
    ELSE chunks

\* split_text on a text of n tokens.  error is "none" when it returns.
split_text(n, cs, ov, th) ==
    IF OverlapOutOfRange(EffOverlap(ov))
    THEN [error |-> "ValueError: chunk_overlap must be between 0 and 1",
          chunks |-> <<>>]
    ELSE IF Stride(cs, EffOverlap(ov)) = 0
    THEN [error |-> "ValueError: range() arg 3 must not be zero",
          chunks |-> <<>>]
    ELSE [error |-> "none",
          chunks |-> MergeTail(Windows(0, n, cs, Stride(cs, EffOverlap(ov))),
                               cs, EffThreshold(th))]

SplitText(n, cs, ov, th) ==
    /\ call = "none"
    /\ call' = "split_text"
    /\ stIn' = [n |-> n, chunk_size |-> cs, chunk_overlap |-> ov,
                last_chunk_threshold |-> th]
    /\ stOut' = split_text(n, cs, ov, th)
    /\ UNCHANGED <<callerCancelled, runnerVars, upsertVars, storeVars, restVars>>

\* ------------------------------------------------ document_to_excerpts
\* The document is its id and its text of n tokens; an excerpt is the record
\* of what _create_excerpt put into the Document it returns.

DocIds == {"a", "b"}
NoDocument == [chunk |-> <<>>, parent_document_id |-> "none",
               keywords |-> "none", template |-> "none"]

\* `if not excerpt_template: excerpt_template = EXCERPT_TEMPLATE`
EffTemplate(t) == IF t = "none" THEN "default" ELSE t

\* text_chunks = split_text(text=document.text, chunk_size=chunk_tokens,
\*                         chunk_overlap=overlap)
DteSplit(d) == split_text(d.n, d.chunk_tokens, d.overlap, None)
DteChunks == DteSplit(dte).chunks

\* The Document _create_excerpt returns for the k-th chunk.
Excerpt(k) ==
    [chunk |-> DteChunks[k], parent_document_id |-> dte.id,
     keywords |-> "extracted", template |-> EffTemplate(dte.excerpt_template)]

\* asyncio.gather(*[...]) returns the results in the order of its arguments.
GatherByCompletion(res, order) == [k \in DOMAIN order |-> res[order[k]]]
Gather(res, order) == [k \in DOMAIN res |-> res[k]]

\* document_to_excerpts splits the text (a ValueError of split_text ends the
\* call) and hands one _create_excerpt per chunk to asyncio.gather.
DocumentToExcerpts(id, n, ct, ov, tpl) ==
    /\ call = "none"
    /\ call' = "document_to_excerpts"
    /\ LET d == [id |-> id, n |-> n, chunk_tokens |-> ct, overlap |-> ov,
                 excerpt_template |-> tpl, loader |-> "none", budget |-> ct]
       IN /\ dte' = d
          /\ dpc' = IF DteSplit(d).error = "none" THEN "running" ELSE "raised"
          /\ estate' = [k \in 1..Len(DteSplit(d).chunks) |-> "pending"]
          /\ eres' = [k \in 1..Len(DteSplit(d).chunks) |-> NoDocument]
    /\ eorder' = <<>>
    /\ excerpts' = <<>>
    /\ UNCHANGED <<callerCancelled, runnerVars, upsertVars, splitVars,
                   storeVars, loaderVars, sessionVars, lateVars>>

\* _create_excerpt of chunk k runs `keywords = extract_keywords(text)`, which
\* returns the keywords or raises (yake not installed: ImportError; the
\* extractor failing on the text), and, if it returned, goes on to
\* `await excerpt_template.render_async(...)`.
ExcerptStart(k, kw) ==
    /\ dpc \in {"running", "raised"}
    /\ estate[k] = "pending"
    /\ estate' = [estate EXCEPT ![k] = IF kw = "raised" THEN "kw_failed"
                                                        ELSE "rendering"]
    /\ UNCHANGED <<call, callerCancelled, runnerVars, upsertVars, splitVars,
                   storeVars, dte, dpc, eres, eorder, excerpts, loaderVars,
                   sessionVars, lateVars>>

\* The render of chunk k returns and _create_excerpt returns its Document.
ExcerptDone(k) ==
    /\ dpc \in {"running", "raised"}
    /\ estate[k] = "rendering"
    /\ estate' = [estate EXCEPT ![k] = "done"]
    /\ eres' = [eres EXCEPT ![k] = Excerpt(k)]
    /\ eorder' = Append(eorder, k)
    /\ UNCHANGED <<call, callerCancelled, runnerVars, upsertVars, splitVars,
                   storeVars, dte, dpc, excerpts, loaderVars, sessionVars,
                   lateVars>>

\* Every _create_excerpt has returned: the gather returns their Documents
\* and document_to_excerpts returns that list.
ExcerptsReturn ==
    /\ dpc = "running"
    /\ \A k \in DOMAIN estate : estate[k] = "done"
    /\ excerpts' = Gather(eres, eorder)
    /\ dpc' = "returned"
    /\ UNCHANGED <<call, callerCancelled, runnerVars, upsertVars, splitVars,
                   storeVars, dte, estate, eres, eorder, loaderVars,
                   sessionVars, lateVars>>

\* A _create_excerpt raised: the gather (return_exceptions unset) raises its
\* exception and document_to_excerpts ends with it.
ExcerptsRaise ==
    /\ dpc = "running"
    /\ \E k \in DOMAIN estate : estate[k] = "kw_failed"
    /\ dpc' = "raised"
    /\ UNCHANGED <<call, callerCancelled, runnerVars, upsertVars, splitVars,
                   storeVars, dte, estate, eres, eorder, excerpts, loaderVars,
                   sessionVars, lateVars>>

\* -------------------------------------------------------------- loaders
\* A loader is its class, the number of its urls and the excerpt_template
\* field it was built with ("none": the field's default, None).

URLLoaderConcurrency == 30
SitemapLoaderConcurrency == 5

\* URLLoader.load: `await document_to_excerpts(d)`, whatever the loader's
\* excerpt_template field holds.
LoadTemplateArg(configured) == "none"

\* SitemapLoader._get_loader: URLLoader(urls=..., headers=...,
\* create_excerpts=...), so the child's excerpt_template is the default.
ChildTemplate(configured) == "none"

\* document_to_excerpts(..., chunk_tokens: int = 300, ...)
DefaultChunkTokens == 300

\* The chunk_tokens with which a loader's call of document_to_excerpts runs
\* split_text.  PDFLoader passes chunk_tokens=self.chunk_tokens.  URLLoader
\* (SitemapLoader's children too) calls document_to_excerpts(d), and
\* GitHubRepoLoader passes its budget as chunk_size=..., a name that
\* document_to_excerpts takes into **extra_template_kwargs: both run with
\* the default of the parameter.
LoaderChunkTokens(kind, budget) ==
    IF kind = "PDFLoader" THEN budget ELSE DefaultChunkTokens

\* The excerpt_template argument that reaches document_to_excerpts.
LoaderTemplate(l) ==
    IF l.kind = "SitemapLoader"
    THEN LoadTemplateArg(ChildTemplate(l.excerpt_template))
    ELSE LoadTemplateArg(l.excerpt_template)

\* URLLoader.load hands run_concurrent_tasks one `lambda u=url:
\* load_url_task(u)` per url.
URLLoaderLoad(nu, tpl, ct, bad) ==
    /\ call = "none"
    /\ call' = "URLLoader.load"
    /\ loader' = [kind |-> "URLLoader", nUrls |-> nu, excerpt_template |-> tpl,
                  chunk_tokens |-> ct, failing |-> bad]
    /\ lpc' = "running"
    /\ loaded' = <<>>
    /\ StartRunner(nu, "callable", URLLoaderConcurrency)
    /\ UNCHANGED <<callerCancelled, upsertVars, splitVars, storeVars,
                   excerptVars, sessionVars, lateVars>>

\* SitemapLoader.load -> _get_loader hands run_concurrent_tasks one
\* `lambda u=url: self.load_sitemap(u)` per sitemap url.
SitemapLoaderLoad(nu, tpl, ct) ==
    /\ call = "none"
    /\ call' = "SitemapLoader.load"
    /\ loader' = [kind |-> "SitemapLoader", nUrls |-> nu,
                  excerpt_template |-> tpl, chunk_tokens |-> ct, failing |-> {}]
    /\ lpc' = "running"
    /\ loaded' = <<>>
    /\ StartRunner(nu, "callable", SitemapLoaderConcurrency)
    /\ UNCHANGED <<callerCancelled, upsertVars, splitVars, storeVars,
                   excerptVars, sessionVars, lateVars>>

\* load_url_task returns None for a url whose load_url raised (`except
\* Exception as e: self.logger.error(e); return None`), and load() skips
\* the None results (`if d is not None`).
Fetched(res, bad) == SelectSeq(res, LAMBDA u : u \notin bad)

\* `await run_concurrent_tasks(...)` ends.  If it raised, so does load();
\* if it returned, every document it returned is made into excerpts (for a
\* SitemapLoader: by the child URLLoaders built over the urls found) and
\* load() returns them.
LoaderFinish ==
    /\ call \in {"URLLoader.load", "SitemapLoader.load"}
    /\ lpc = "running"
    /\ rpc \in {"returned", "raised", "cancelled"}
    /\ lpc' = rpc
    /\ loaded' = IF rpc = "returned"
                 THEN [k \in DOMAIN Fetched(results, loader.failing) |->
                          [url |-> Fetched(results, loader.failing)[k],
                           template |-> EffTemplate(LoaderTemplate(loader)),
                           chunk_size |-> LoaderChunkTokens(loader.kind,
                                                            loader.chunk_tokens)]]
                 ELSE <<>>
    /\ UNCHANGED <<call, callerCancelled, runnerVars, upsertVars, splitVars,
                   storeVars, excerptVars, loader, sessionVars, lateVars>>

\* The call of document_to_excerpts a loader makes for one document (a file
\* of the repository, a page of the PDF) of n tokens.
LoaderExcerpts(kind, n, budget, ov) ==
    /\ LET d == [id |-> "a", n |-> n,
                 chunk_tokens |-> LoaderChunkTokens(kind, budget),
                 overlap |-> ov, excerpt_template |-> "none",
                 loader |-> kind, budget |-> budget]
       IN /\ dte' = d
          /\ dpc' = IF DteSplit(d).error = "none" THEN "running" ELSE "raised"
          /\ estate' = [k \in 1..Len(DteSplit(d).chunks) |-> "pending"]
          /\ eres' = [k \in 1..Len(DteSplit(d).chunks) |-> NoDocument]
    /\ eorder' = <<>>
    /\ excerpts' = <<>>
    /\ UNCHANGED <<callerCancelled, runnerVars, upsertVars, splitVars,
                   storeVars, loaderVars, sessionVars, lateVars>>

\* GitHubRepoLoader.load, on a repository of one matching file:
\* document_to_excerpts(Document(...), chunk_size=self.chunk_size,
\*                      overlap=self.overlap)
GitHubRepoLoaderLoad(n, chunk_size, ov) ==
    /\ call = "none"
    /\ call' = "GitHubRepoLoader.load"
    /\ LoaderExcerpts("GitHubRepoLoader", n, chunk_size, ov)

\* PDFLoader.load, on a file of one page:
\* document_to_excerpts(Document(...), chunk_tokens=self.chunk_tokens)
PDFLoaderLoad(n, chunk_tokens) ==
    /\ call = "none"
    /\ call' = "PDFLoader.load"
    /\ LoaderExcerpts("PDFLoader", n, chunk_tokens, DefaultChunkOverlap)

\* ---------------------------------- TurboPuffer: upsert, query, reset, ok
\* The synchronous operations of one client: each runs to its end (its
\* embedding call through run_coro_as_sync).  An argument is "none" when
\* left out, "empty" for an empty list or string, and otherwise given.

NoArgs == [documents |-> "none", vectors |-> "none", textAttr |-> "absent",
           text |-> "none", vector |-> "none"]
NoOutcome == [error |-> "none", embedCalls |-> 0, storeCalls |-> 0,
              notFound |-> FALSE, queryVector |-> "none", result |-> "none",
              failure |-> "none"]

\* The rows upsert builds: of its one document (id 1), or of the ids and
\* vectors given (id 0).
UpsertRows(docs) ==
    IF docs = "some" THEN {[id |-> RowId(1, 1), doc |-> 1]}
                     ELSE {[id |-> RowId(0, 1), doc |-> 0]}

\* TurboPuffer.upsert, up to its write: the error it raises ("none": it goes
\* on to self.ns.write) and the embedding calls it made.  ids are given with
\* vectors.
upsert(docs, vecs, ta, embedOk) ==
    IF docs = "none" /\ vecs = "none"
    THEN [error |-> "ValueError", embedCalls |-> 0]
    ELSE IF docs = "some"
    THEN [error |-> IF ~embedOk THEN "UpstreamFailure"
                    ELSE IF ta = "values" THEN "ValueError" ELSE "none",
          embedCalls |-> 1]
    ELSE [error |-> IF vecs = "none" THEN "AssertionError" ELSE "none",
          embedCalls |-> 0]

TpufUpsert(docs, vecs, ta, embedOk, writeOk) ==
    /\ call \in {"none", "tpuf.client"}
    /\ opCount < MaxOps
    /\ call' = "tpuf.client"
    /\ opCount' = opCount + 1
    /\ LET u == upsert(docs, vecs, ta, embedOk)
           wrote == u.error = "none" /\ writeOk
       IN /\ last' = [op |-> "upsert", prev |-> last.op,
                      args |-> [NoArgs EXCEPT !.documents = docs,
                                              !.vectors = vecs,
                                              !.textAttr = ta],
                      out |-> [NoOutcome EXCEPT
                                 !.error = IF u.error = "none" /\ ~writeOk
                                           THEN "UpstreamFailure" ELSE u.error,
                                 !.embedCalls = u.embedCalls,
                                 !.storeCalls = IF u.error = "none" THEN 1 ELSE 0]]
          /\ ns' = IF wrote THEN StoreUpsert(ns, UpsertRows(docs)) ELSE ns
          /\ nsExists' = IF wrote THEN TRUE ELSE nsExists
    /\ UNCHANGED <<callerCancelled, runnerVars, upsertVars, splitVars, run,
                   orphans, excerptVars, loaderVars, lateVars>>

\* `elif vector is None: raise ValueError(...)`, reached when text is falsy.
QueryRejectsNothing(vector) == FALSE
QueryRejects(vector) == vector = "none"

\* TurboPuffer.query: `if text:` embeds the text and queries with that
\* embedding; otherwise the vector given is the query vector.  The store
\* answers a query of a namespace it does not have with NotFoundError.
query(text, vector, embedOk, exists) ==
    IF text = "some"
    THEN IF ~embedOk
         THEN [NoOutcome EXCEPT !.error = "UpstreamFailure", !.embedCalls = 1]
         ELSE [NoOutcome EXCEPT !.embedCalls = 1, !.storeCalls = 1,
                                !.queryVector = "embedding",
                                !.notFound = ~exists,
                                !.error = IF exists THEN "none" ELSE "NotFoundError",
                                !.result = IF exists THEN "rows" ELSE "none"]
    ELSE IF QueryRejects(vector)
    THEN [NoOutcome EXCEPT !.error = "ValueError"]
    ELSE [NoOutcome EXCEPT !.storeCalls = 1, !.queryVector = vector,
                           !.notFound = ~exists,
                           !.error = IF exists THEN "none" ELSE "NotFoundError",
                           !.result = IF exists THEN "rows" ELSE "none"]

TpufQuery(text, vector, embedOk) ==
    /\ call \in {"none", "tpuf.client"}
    /\ opCount < MaxOps
    /\ call' = "tpuf.client"
    /\ opCount' = opCount + 1
    /\ last' = [op |-> "query", prev |-> last.op,
                args |-> [NoArgs EXCEPT !.text = text, !.vector = vector],
                out |-> query(text, vector, embedOk, nsExists)]
    /\ UNCHANGED <<callerCancelled, runnerVars, upsertVars, splitVars,
                   storeVars, excerptVars, loaderVars, lateVars>>

\* query_namespace: `except (NotFoundError, Exception) as e:` returns "" when
\* `isinstance(e, NotFoundError) or "missing distance metric" in str(e)` and
\* re-raises otherwise.  Exceptions are named by their class, the store's
\* error about the distance metric by its message.
SwallowsAll(e) == TRUE
Swallows(e) == e = "NotFoundError" \/ e = "missing distance metric"

\* How the store can fail a query of a namespace it has.
StoreFaults == {"none", "missing distance metric", "UpstreamFailure"}

\* query_namespace(query_text): tpuf_ns.query(text=query_text, ...) inside the
\* try; `failure` is the exception raised there, `error` the one that leaves
\* query_namespace, `result` the string returned.
query_namespace(text, embedOk, exists, fault) ==
    LET q == query(text, "none", embedOk, exists)
        e == IF q.error = "none" THEN fault ELSE q.error
    IN IF e = "none"
       THEN [q EXCEPT !.result = "slice_tokens(rows)"]
       ELSE IF Swallows(e)
       THEN [q EXCEPT !.failure = e, !.error = "none", !.result = ""]
       ELSE [q EXCEPT !.failure = e, !.error = e, !.result = "none"]

QueryNamespace(text, embedOk, fault) ==
    /\ call \in {"none", "tpuf.client"}
    /\ opCount < MaxOps
    /\ call' = "tpuf.client"
    /\ opCount' = opCount + 1
    /\ last' = [op |-> "query_namespace", prev |-> last.op,
                args |-> [NoArgs EXCEPT !.text = text],
                out |-> query_namespace(text, embedOk, nsExists, fault)]
    /\ UNCHANGED <<callerCancelled, runnerVars, upsertVars, splitVars,
                   storeVars, excerptVars, loaderVars, lateVars>>

\* reset: `except NotFoundError:` around self.ns.delete_all().
ResetCatchesNothing(e) == FALSE
ResetCatches(e) == e = "NotFoundError"

\* ok: `except NotFoundError: return False` around self.ns.exists().
OkCatches(e) == e = "NotFoundError"

\* TurboPuffer.reset.  Asked to delete a namespace it does not have, the
\* store raises NotFoundError (nf) or does nothing.
TpufReset(nf) ==
    /\ call \in {"none", "tpuf.client"}
    /\ opCount < MaxOps
    /\ call' = "tpuf.client"
    /\ opCount' = opCount + 1
    /\ last' = [op |-> "reset", prev |-> last.op, args |-> NoArgs,
                out |-> [NoOutcome EXCEPT
                           !.storeCalls = 1,
                           !.notFound = ~nsExists /\ nf,
                           !.error = IF ~nsExists /\ nf /\ ~ResetCatches("NotFoundError")
                                     THEN "NotFoundError" ELSE "none"]]
    /\ ns' = {}
    /\ nsExists' = FALSE
    /\ UNCHANGED <<callerCancelled, runnerVars, upsertVars, splitVars, run,
                   orphans, excerptVars, loaderVars, lateVars>>

\* TurboPuffer.ok.  Asked whether a namespace it does not have exists, the
\* store raises NotFoundError (nf) or answers False.
TpufOk(nf) ==
    /\ call \in {"none", "tpuf.client"}
    /\ opCount < MaxOps
    /\ call' = "tpuf.client"
    /\ opCount' = opCount + 1
    /\ last' = [op |-> "ok", prev |-> last.op, args |-> NoArgs,
                out |-> [NoOutcome EXCEPT
                           !.storeCalls = 1,
                           !.notFound = ~nsExists /\ nf,
                           !.error = IF ~nsExists /\ nf /\ ~OkCatches("NotFoundError")
                                     THEN "NotFoundError" ELSE "none",
                           !.result = IF nsExists THEN "True"
                                      ELSE IF nf /\ ~OkCatches("NotFoundError")
                                      THEN "none" ELSE "False"]]
    /\ UNCHANGED <<callerCancelled, runnerVars, upsertVars, splitVars,
                   storeVars, excerptVars, loaderVars, lateVars>>

\* ------------------------------------------- create_openai_embeddings
\* stop=stop_after_attempt(3)
StopAfterAttempt == 3

\* retry=retry_if_exception_type(APIConnectionError)
ShouldRetryAny(e) == TRUE
ShouldRetry(e) == e = "APIConnectionError"

\* What one attempt can end with: the embeddings, the TypeError of the input
\* check, a connection-class failure of the API call, any other failure of it.
AttemptOutcomes == {"ok", "TypeError", "APIConnectionError", "RateLimitError"}

EmbeddingInputs == {[type |-> "str", n |-> 1], [type |-> "other", n |-> 0]} \cup
                   {[type |-> "list", n |-> k] : k \in 1..MaxBatchSize}

CreateOpenaiEmbeddings(input) ==
    /\ call = "none"
    /\ call' = "create_openai_embeddings"
    /\ embIn' = input
    /\ attempts' = <<>>
    /\ epc' = "running"
    /\ eout' = "none"
    /\ UNCHANGED <<oldVars, tokenVars, issueVars, metricVars>>

\* One attempt of the decorated function. The input check raises TypeError
\* before the API call; otherwise the API call decides the outcome. tenacity
\* then returns the result, re-raises an exception its retry predicate does
\* not match, raises RetryError when the stop condition is met, or goes on
\* to the next attempt (after wait_fixed(2)).
EmbeddingAttempt(o) ==
    /\ call = "create_openai_embeddings"
    /\ epc = "running"
    /\ (o = "TypeError") <=> (embIn.type = "other")
    /\ LET log == Append(attempts, o) IN
        /\ attempts' = log
        /\ IF o = "ok"
           THEN epc' = "returned" /\ eout' = ReturnShape(embIn.n)
           ELSE IF ~ShouldRetry(o)
           THEN epc' = "raised" /\ eout' = o
           ELSE IF Len(log) >= StopAfterAttempt
           THEN epc' = "raised" /\ eout' = "RetryError"
           ELSE epc' = "running" /\ eout' = eout
    /\ UNCHANGED <<call, embIn, oldVars, tokenVars, issueVars, metricVars>>

\* ------------------------------- tokenize, detokenize, slice_tokens
\* The encoding get_encoding_for_model returns is a byte-level BPE: encode
\* turns the text into its UTF-8 bytes and merges bytes into tokens; decode
\* concatenates the bytes of the tokens and decodes them as UTF-8 with
\* errors="replace".  The model has three characters: "a" (one byte), "E" (a
\* character of three bytes, each byte a token of its own, as for an emoji)
\* and "R" (U+FFFD, whose bytes are one token "r"); and one merge, of two
\* "a" bytes into the token "aa".
Characters == {"a", "E", "R"}

Utf8(c) == IF c = "a" THEN <<"a">>
           ELSE IF c = "E" THEN <<"e1", "e2", "e3">> ELSE <<"r">>

RECURSIVE Utf8Bytes(_)
Utf8Bytes(text) ==
    IF text = <<>> THEN <<>> ELSE Utf8(Head(text)) \o Utf8Bytes(Tail(text))

RECURSIVE Bpe(_)
Bpe(bytes) ==
    IF bytes = <<>> THEN <<>>
    ELSE IF Len(bytes) >= 2 /\ bytes[1] = "a" /\ bytes[2] = "a"
    THEN <<"aa">> \o Bpe(SubSeq(bytes, 3, Len(bytes)))
    ELSE <<bytes[1]>> \o Bpe(Tail(bytes))

\* encoding.encode(text)
tokenize(text) == Bpe(Utf8Bytes(text))

TokenBytes(t) == IF t = "aa" THEN <<"a", "a">> ELSE <<t>>

RECURSIVE DecodeBytes(_)
DecodeBytes(tokens) ==
    IF tokens = <<>> THEN <<>>
    ELSE TokenBytes(Head(tokens)) \o DecodeBytes(Tail(tokens))

\* bytes.decode("utf-8", errors="replace"): a complete sequence gives its
\* character; a truncated sequence (a lead byte with fewer continuation
\* bytes than it announces) gives one U+FFFD; a stray continuation byte
\* gives one U+FFFD.
RECURSIVE DecodeUtf8(_)
DecodeUtf8(bytes) ==
    IF bytes = <<>> THEN <<>>
    ELSE IF bytes[1] = "a" THEN <<"a">> \o DecodeUtf8(Tail(bytes))
    ELSE IF bytes[1] = "r" THEN <<"R">> \o DecodeUtf8(Tail(bytes))
    ELSE IF bytes[1] = "e1" /\ Len(bytes) >= 3 /\ bytes[2] = "e2" /\ bytes[3] = "e3"
    THEN <<"E">> \o DecodeUtf8(SubSeq(bytes, 4, Len(bytes)))
    ELSE IF bytes[1] = "e1" /\ Len(bytes) >= 2 /\ bytes[2] = "e2"
    THEN <<"R">> \o DecodeUtf8(SubSeq(bytes, 3, Len(bytes)))
    ELSE <<"R">> \o DecodeUtf8(Tail(bytes))

\* encoding.decode(tokens)
detokenize(tokens) == DecodeUtf8(DecodeBytes(tokens))

count_tokens(text) == Len(tokenize(text))

\* `return detokenize(tokenize(text)[:n_tokens])`
slice_tokens(text, n_tokens) ==
    detokenize(SubSeq(tokenize(text), 1, Min(n_tokens, Len(tokenize(text)))))

Texts == UNION {[1..k -> Characters] : k \in 0..MaxTextLen}

SliceTokens(text, n) ==
    /\ call = "none"
    /\ call' = "slice_tokens"
    /\ slIn' = [text |-> text, n_tokens |-> n]
    /\ slOut' = slice_tokens(text, n)
    /\ UNCHANGED <<oldVars, embedVars, issueVars, metricVars>>

\* --------------------------------------- GitHubIssueLoader._get_issues
\* The server's answer to ?per_page=s&page=p on a repository of `repo`
\* issues: items (p-1)*s .. p*s-1 of its list, as far as they exist.
ServerPage(p, s, repo) ==
    [k \in 1..(Min(p * s, repo) - (p - 1) * s) |-> (p - 1) * s + k - 1]

\* "per_page": min(remaining, per_page)
PerPageParam(remaining, per_page) == Min(remaining, per_page)

\* page = 1; `while len(issues) < self.n_issues:` is tested before the
\* first request.
GetIssues(n, pp, repo) ==
    /\ call = "none"
    /\ call' = "_get_issues"
    /\ gi' = [n_issues |-> n, per_page |-> pp, repo |-> repo]
    /\ issues' = <<>>
    /\ page' = 1
    /\ gpc' = IF 0 < n THEN "running" ELSE "returned"
    /\ UNCHANGED <<oldVars, embedVars, tokenVars, metricVars>>

\* One turn of the loop: the request of the page, raise_for_status, `if not
\* new_issues: break`, issues.extend(...), page += 1 and the loop test.
GetIssuesPage(ok) ==
    /\ call = "_get_issues"
    /\ gpc = "running"
    /\ LET remaining == gi.n_issues - Len(issues)
           new == ServerPage(page, PerPageParam(remaining, gi.per_page), gi.repo)
       IN IF ~ok
          THEN gpc' = "raised" /\ UNCHANGED <<issues, page>>
          ELSE IF new = <<>>
          THEN gpc' = "returned" /\ UNCHANGED <<issues, page>>
          ELSE /\ issues' = issues \o new
               /\ page' = page + 1
               /\ gpc' = IF Len(issues \o new) < gi.n_issues
                         THEN "running" ELSE "returned"
    /\ UNCHANGED <<call, gi, oldVars, embedVars, tokenVars, metricVars>>

\* ------------------------------------------ search_prefect and metrics
\* The tool is a synchronous function the server runs on worker threads, so
\* calls overlap.  A call is: idle (not made), rejected (the empty-query
\* ValueError), inc_total / inc_success / inc_error (at the `with
\* self._lock:` of that increment), the same with _locked (inside it, the
\* counter read), query (in the try block), returned (a result response),
\* returned_error (an error response), raised (an exception left the tool).
CallIds == 1..MaxCalls

\* `with self._lock:` enters when no thread holds the lock.
LockFreeAlways(l) == TRUE
LockFree(l) == l = 0

\* How the try block around _run_query ends: with rows, with the store's
\* NotFoundError (`rows = []`), with an exception one of the other except
\* clauses catches (authentication, APIError, OpenAIError, BadRequestError,
\* ValueError), or with one none of them catches (tenacity's RetryError, an
\* AssertionError).
QueryOutcomes == {"rows", "NotFoundError", "APIError", "RetryError"}

\* Where a call goes from the try block.
AfterQuery(o) ==
    IF o \in {"rows", "NotFoundError"} THEN "inc_success"
    ELSE IF o = "APIError" THEN "inc_error"
    ELSE "raised"

\* The counter an increment is about, and where the call goes after it.
CounterOf(pc) ==
    IF pc \in {"inc_total", "inc_total_locked"} THEN "search_calls_total"
    ELSE IF pc \in {"inc_success", "inc_success_locked"} THEN "search_calls_success"
    ELSE "search_calls_error"
AfterIncrement(pc) ==
    IF pc = "inc_total_locked" THEN "query"
    ELSE IF pc = "inc_success_locked" THEN "returned"
    ELSE "returned_error"

\* search_prefect(query): `if not query.strip(): raise ValueError(...)`, then
\* metrics.increment("search_calls_total").
SearchPrefect(c, q) ==
    /\ call \in {"none", "search_prefect"}
    /\ spc[c] = "idle"
    /\ call' = "search_prefect"
    /\ spc' = [spc EXCEPT ![c] = IF q = "empty" THEN "rejected" ELSE "inc_total"]
    /\ UNCHANGED <<counters, lock, tmp, oldVars, embedVars, tokenVars, issueVars>>

\* increment: `with self._lock:` entered and self._counters.get(counter, 0)
\* evaluated.
IncrementEnter(c) ==
    /\ call = "search_prefect"
    /\ spc[c] \in {"inc_total", "inc_success", "inc_error"}
    /\ LockFree(lock)
    /\ lock' = c
    /\ tmp' = [tmp EXCEPT ![c] = counters[CounterOf(spc[c])]]
    /\ spc' = [spc EXCEPT ![c] = IF spc[c] = "inc_total" THEN "inc_total_locked"
                                 ELSE IF spc[c] = "inc_success"
                                 THEN "inc_success_locked" ELSE "inc_error_locked"]
    /\ UNCHANGED <<call, counters, oldVars, embedVars, tokenVars, issueVars>>

\* increment: self._counters[counter] = <the value read> + 1, and the lock
\* released; the call goes on (after search_calls_success and after
\* search_calls_error it returns its response).
IncrementStore(c) ==
    /\ call = "search_prefect"
    /\ spc[c] \in {"inc_total_locked", "inc_success_locked", "inc_error_locked"}
    /\ counters' = [counters EXCEPT ![CounterOf(spc[c])] = tmp[c] + 1]
    /\ lock' = 0
    /\ spc' = [spc EXCEPT ![c] = AfterIncrement(spc[c])]
    /\ UNCHANGED <<call, tmp, oldVars, embedVars, tokenVars, issueVars>>

\* The try block ends; with rows or not-found the rows are formatted.
SearchQuery(c, o) ==
    /\ call = "search_prefect"
    /\ spc[c] = "query"
    /\ spc' = [spc EXCEPT ![c] = AfterQuery(o)]
    /\ UNCHANGED <<call, counters, lock, tmp, oldVars, embedVars, tokenVars,
                   issueVars>>

\* ------------------------------------------------------ specification

OverlapInputs == {<<a, FracDen>> : a \in (-1)..(FracDen + 1)} \cup {None}
ThresholdInputs == {<<t, FracDen>> : t \in 0..FracDen} \cup {None}
\* overlap of document_to_excerpts: its default 0.1, a half, and 1.
ExcerptOverlapInputs == {<<1, 10>>, <<2, 4>>, <<4, 4>>}
TemplateInputs == {"none", "custom"}
TokenCounts == 0..MaxTokens \cup {2 * DecimalChunk + 1}
ChunkSizes == 1..MaxChunkSize \cup {DecimalChunk}

Init ==
    /\ call = "none"
    /\ taskForm = "awaitable"
    /\ nTasks = 0
    /\ max_concurrent = 1
    /\ semaphore = 0
    /\ tstate = <<>>
    /\ results = <<>>
    /\ tgCancelled = FALSE
    /\ rpc = "idle"
    /\ nDocs = 0
    /\ batch_size = 1
    /\ skip_errors = FALSE
    /\ upc = "idle"
    /\ groupStart = 0
    /\ bstate = <<>>
    /\ embedCalls = <<>>
    /\ writes = <<>>
    /\ stIn = [n |-> 0, chunk_size |-> 1, chunk_overlap |-> None,
               last_chunk_threshold |-> None]
    /\ stOut = [error |-> "none", chunks |-> <<>>]
    /\ callerCancelled = FALSE
    /\ ns = {}
    /\ nsExists = FALSE
    /\ run = 1
    /\ orphans = {}
    /\ dte = [id |-> "a", n |-> 0, chunk_tokens |-> 1, overlap |-> None,
              excerpt_template |-> "none", loader |-> "none", budget |-> 1]
    /\ dpc = "idle"
    /\ estate = <<>>
    /\ eres = <<>>
    /\ eorder = <<>>
    /\ excerpts = <<>>
    /\ loader = [kind |-> "URLLoader", nUrls |-> 0, excerpt_template |-> "none",
                 chunk_tokens |-> 1, failing |-> {}]
    /\ lpc = "idle"
    /\ loaded = <<>>
    /\ opCount = 0
    /\ last = [op |-> "none", prev |-> "none", args |-> NoArgs, out |-> NoOutcome]
    /\ embIn = [type |-> "str", n |-> 1]
    /\ attempts = <<>>
    /\ epc = "idle"
    /\ eout = "none"
    /\ slIn = [text |-> <<>>, n_tokens |-> 0]
    /\ slOut = <<>>
    /\ gi = [n_issues |-> 0, per_page |-> 1, repo |-> 0]
    /\ issues = <<>>
    /\ page = 1
    /\ gpc = "idle"
    /\ spc = [c \in CallIds |-> "idle"]
    /\ counters = [search_calls_total |-> 0, search_calls_success |-> 0,
                   search_calls_error |-> 0]
    /\ lock = 0
    /\ tmp = [c \in CallIds |-> 0]

Next ==
    \/ call = "none" /\
       \E n \in 0..MaxTasks, form \in {"awaitable", "callable"},
             m \in 1..MaxConcurrent : RunConcurrentTasks(n, form, m)
    \/ \E i \in 1..nTasks : Acquire(i)
    \/ \E i \in 1..nTasks : TaskTypeError(i)
    \/ \E i \in 1..nTasks : TaskComplete(i)
    \/ \E i \in 1..nTasks : TaskFail(i)
    \/ \E i \in 1..nTasks : TaskCancelled(i)
    \/ CallerCancel
    \/ RunnerExit
    \/ call = "none" /\
       \E n \in 0..MaxDocs, bs \in 1..MaxBatchSize, m \in 1..MaxConcurrent,
             skip \in BOOLEAN : TpufUpsertBatched(n, bs, m, skip)
    \/ call = "none" /\
       \E n \in 0..MaxDocs, bs \in 1..MaxBatchSize, m \in 1..MaxConcurrent,
             skip \in BOOLEAN : ChromaUpsertBatched(n, bs, m, skip)
    \/ ChromaAwaitRunner
    \/ \E b \in BatchSet : BatchStart(b)
    \/ \E b \in BatchSet : EmbedFail(b)
    \/ \E b \in BatchSet, ok \in BOOLEAN : EmbedReturnWrite(b, ok)
    \/ TpufGroupDone
    \/ TpufGatherRaise
    \/ TpufCancel
    \/ Retry
    \/ \E b \in orphans, ok \in BOOLEAN : OrphanEnds(b, ok)
    \/ call = "none" /\
       \E n \in TokenCounts, cs \in ChunkSizes, ov \in OverlapInputs,
             th \in ThresholdInputs : SplitText(n, cs, ov, th)
    \/ call = "none" /\
       \E id \in DocIds, n \in 0..MaxExcerptTokens, ct \in 1..MaxExcerptChunk,
             ov \in ExcerptOverlapInputs, tpl \in TemplateInputs :
             DocumentToExcerpts(id, n, ct, ov, tpl)
    \/ \E k \in DOMAIN estate, kw \in {"returned", "raised"} : ExcerptStart(k, kw)
    \/ \E k \in DOMAIN estate : ExcerptDone(k)
    \/ ExcerptsReturn
    \/ ExcerptsRaise
    \/ call = "none" /\
       \E nu \in 0..MaxUrls, tpl \in TemplateInputs, ct \in 1..MaxExcerptChunk :
             \E bad \in SUBSET (1..nu) : URLLoaderLoad(nu, tpl, ct, bad)
    \/ call = "none" /\
       \E nu \in 0..MaxUrls, tpl \in TemplateInputs, ct \in 1..MaxExcerptChunk :
             SitemapLoaderLoad(nu, tpl, ct)
    \/ call = "none" /\
       \E n \in 0..MaxExcerptTokens, cs \in 1..MaxExcerptChunk,
             ov \in ExcerptOverlapInputs : GitHubRepoLoaderLoad(n, cs, ov)
    \/ call = "none" /\
       \E n \in 0..MaxExcerptTokens, ct \in 1..MaxExcerptChunk : PDFLoaderLoad(n, ct)
    \/ LoaderFinish
    \/ \E docs \in {"none", "empty", "some"}, vecs \in {"none", "given"},
          ta \in {"absent", "values"}, embedOk \in BOOLEAN, writeOk \in BOOLEAN :
          TpufUpsert(docs, vecs, ta, embedOk, writeOk)
    \/ \E text \in {"none", "empty", "some"}, vector \in {"none", "given"},
          embedOk \in BOOLEAN : TpufQuery(text, vector, embedOk)
    \/ \E nf \in BOOLEAN : TpufReset(nf)
    \/ \E nf \in BOOLEAN : TpufOk(nf)
    \/ \E text \in {"empty", "some"}, embedOk \in BOOLEAN, fault \in StoreFaults :
          QueryNamespace(text, embedOk, fault)
    \/ call = "none" /\
       \E input \in EmbeddingInputs : CreateOpenaiEmbeddings(input)
    \/ \E o \in AttemptOutcomes : EmbeddingAttempt(o)
    \/ call = "none" /\
       \E text \in Texts, n \in 0..MaxSliceTokens : SliceTokens(text, n)
    \/ call = "none" /\
       \E n \in 0..MaxIssues, pp \in 1..MaxPerPage, repo \in 0..MaxRepoIssues :
             GetIssues(n, pp, repo)
    \/ \E ok \in BOOLEAN : GetIssuesPage(ok)
    \/ \E c \in CallIds, q \in {"empty", "text"} : SearchPrefect(c, q)
    \/ \E c \in CallIds : IncrementEnter(c)
    \/ \E c \in CallIds : IncrementStore(c)
    \/ \E c \in CallIds, o \in QueryOutcomes : SearchQuery(c, o)

Spec == Init /\ [][Next]_vars

\* -------------------------------------------------------------- claims

\* The children of run_concurrent_tasks inside `async with semaphore`.
Executing == {i \in 1..nTasks : tstate[i] = "running"}

\* C1: at no instant during run_concurrent_tasks are more than max_concurrent
\* units executing (between acquiring the semaphore and appending the result
\* or failing), for every max_concurrent >= 1 and every collection of units.
C1_BoundedConcurrency ==
    rpc # "idle" => Cardinality(Executing) <= max_concurrent

\* The cap is reached while further units wait for a slot.
C1_Witness ==
    /\ call = "run_concurrent_tasks"
    /\ max_concurrent >= 2
    /\ Cardinality(Executing) = max_concurrent
    /\ \E i \in 1..nTasks : tstate[i] = "spawned"
    /\ \E i \in 1..nTasks : tstate[i] = "done"

\* The batches between the start of their embedding call and the end of
\* their write call.
InFlight == {b \in BatchSet : bstate[b] = "embedding"}

\* C2: in upsert_batched (TurboPuffer and Chroma), for any number of
\* documents, at no instant are more than max_concurrent batches in flight.
C2_BoundedInFlight ==
    call \in {"tpuf.upsert_batched", "chroma.upsert_batched"}
        => Cardinality(InFlight) <= max_concurrent

\* More batches than slots, the cap reached, a batch already written and
\* another still to start.
C2_Witness ==
    /\ call = "tpuf.upsert_batched"
    /\ max_concurrent >= 2
    /\ Cardinality(InFlight) = max_concurrent
    /\ \E b \in BatchSet : bstate[b] = "done"
    /\ \E b \in BatchSet : bstate[b] = "notstarted"

WriteSize(w) == w.hi - w.lo + 1

RECURSIVE SumSizes(_)
SumSizes(ws) == IF ws = <<>> THEN 0 ELSE WriteSize(Head(ws)) + SumSizes(Tail(ws))

\* C3: when every batch succeeds (upsert_batched returns), exactly
\* ceil(len(documents)/batch_size) writes were issued, each of 1..batch_size
\* items, each a slice of consecutive documents that starts at a multiple of
\* batch_size; every document is in exactly one write and the sizes sum to
\* len(documents).
C3_BatchPartition ==
    upc = "returned" =>
        /\ Len(writes) = (nDocs + batch_size - 1) \div batch_size
        /\ \A k \in 1..Len(writes) :
              /\ WriteSize(writes[k]) >= 1
              /\ WriteSize(writes[k]) <= batch_size
              /\ (writes[k].lo - 1) % batch_size = 0
        /\ \A d \in 1..nDocs :
              Cardinality({k \in 1..Len(writes) :
                              writes[k].lo <= d /\ d <= writes[k].hi}) = 1
        /\ SumSizes(writes) = nDocs

\* A run that returned after at least three writes, the last batch partial.
C3_Witness ==
    /\ call = "tpuf.upsert_batched"
    /\ upc = "returned"
    /\ Len(writes) >= 3
    /\ nDocs % batch_size # 0
    /\ batch_size >= 2

\* C4: without skip_errors, once upsert_batched has raised a batch failure
\* to its caller, no further write is issued to the store: not by a batch
\* that had not started, not by a sibling batch that was in flight.
C4_NoWriteAfterRaise ==
    [][(~skip_errors /\ upc = "raised" /\ run' = run) => writes' = writes]_vars

\* C5: called with skip_errors set, upsert_batched does not raise; a failed
\* batch is skipped and every other batch is embedded and written.
C5_SkipErrorsContinues ==
    skip_errors =>
        /\ upc # "raised"
        /\ upc = "returned" =>
              \A b \in 1..NumBatches(nDocs, batch_size) :
                  b \in BatchSet
                  /\ bstate[b] \in {"done", "embed_failed", "write_failed"}

WriteCalls(b) == Cardinality({k \in 1..Len(writes) : writes[k].batch = b})

\* C6: each batch makes at most one embedding call and at most one write
\* call, and exactly one of each once its _upsert has finished; a write is
\* issued only in the step in which the batch's outstanding embedding call
\* returns its vectors, and never for a batch whose embedding call failed.
C6_EmbedThenWrite ==
    /\ [](\A b \in BatchSet :
            /\ embedCalls[b] <= 1
            /\ WriteCalls(b) <= 1
            /\ (WriteCalls(b) = 1 => embedCalls[b] = 1)
            /\ (bstate[b] = "done" => embedCalls[b] = 1 /\ WriteCalls(b) = 1)
            /\ (bstate[b] = "embed_failed" => WriteCalls(b) = 0))
    /\ [][\A b \in BatchSet :
            WriteCalls(b)' > WriteCalls(b)
                => bstate[b] = "embedding" /\ embedCalls[b] = 1]_vars

\* One batch of several documents embedded and written, another whose
\* embedding call failed.
C6_Witness ==
    /\ \E b \in BatchSet :
          bstate[b] = "done" /\ BatchHi(b, batch_size, nDocs) > BatchLo(b, batch_size)
    /\ \E b \in BatchSet : bstate[b] = "embed_failed"

\* The chunks split_text returned.
Chunks == stOut.chunks

\* chunk_overlap (as given or defaulted) is in [0, 1).
OverlapBelowOne ==
    /\ EffOverlap(stIn.chunk_overlap)[1] >= 0
    /\ EffOverlap(stIn.chunk_overlap)[1] < EffOverlap(stIn.chunk_overlap)[2]

\* C7: for chunk_size >= 1, chunk_overlap in [0,1) and last_chunk_threshold
\* in [0,1], split_text returns chunks that together hold every token
\* position of the input, in increasing order of start position; an empty
\* input yields no chunks.
C7_ChunkCoverage ==
    (call = "split_text" /\ OverlapBelowOne) =>
        /\ stOut.error = "none"
        /\ \A p \in 1..stIn.n :
              \E k \in 1..Len(Chunks) : \E j \in 1..Len(Chunks[k]) : Chunks[k][j] = p
        /\ \A k \in 1..(Len(Chunks) - 1) : Chunks[k][1] < Chunks[k + 1][1]
        /\ \A k \in 1..Len(Chunks) : Len(Chunks[k]) >= 1
        /\ (stIn.n = 0 => Chunks = <<>>)

\* Overlapping windows, several chunks, and a merged tail.
C7_Witness ==
    /\ call = "split_text"
    /\ OverlapBelowOne
    /\ EffOverlap(stIn.chunk_overlap)[1] > 0
    /\ Stride(stIn.chunk_size, EffOverlap(stIn.chunk_overlap)) < stIn.chunk_size
    /\ Len(Chunks) >= 3
    /\ Len(Chunks[Len(Chunks)]) > stIn.chunk_size

\* The raw windowing, stated by position: window k starts after (k-1)*step
\* tokens and holds up to chunk_size tokens.
RawCount(n, step) == (n + step - 1) \div step
RawLen(k, n, cs, step) == Min(cs, n - (k - 1) * step)
RawWindow(k, n, cs, step) == [j \in 1..RawLen(k, n, cs, step) |-> (k - 1) * step + j]

\* C8: when raw windowing gives at least 2 windows and the last has fewer
\* than chunk_size * last_chunk_threshold tokens, the output has one chunk
\* fewer than the raw windowing and its final chunk has as many tokens as
\* the last two raw windows together; otherwise the output is exactly the
\* raw windows.
C8_TailMerge ==
    (call = "split_text" /\ stOut.error = "none") =>
        LET n == stIn.n
            cs == stIn.chunk_size
            step == Stride(cs, EffOverlap(stIn.chunk_overlap))
            th == EffThreshold(stIn.last_chunk_threshold)
            rc == RawCount(n, step)
        IN  IF rc >= 2 /\ RawLen(rc, n, cs, step) * th[2] < cs * th[1]
            THEN /\ Len(Chunks) = rc - 1
                 /\ Len(Chunks[rc - 1]) =
                       RawLen(rc - 1, n, cs, step) + RawLen(rc, n, cs, step)
                 /\ \A k \in 1..(rc - 2) : Chunks[k] = RawWindow(k, n, cs, step)
            ELSE /\ Len(Chunks) = rc
                 /\ \A k \in 1..rc : Chunks[k] = RawWindow(k, n, cs, step)

\* A tail merge that left at least two chunks.
C8_Witness ==
    /\ call = "split_text"
    /\ stOut.error = "none"
    /\ Len(Chunks) >= 2
    /\ Len(Chunks) = RawCount(stIn.n, Stride(stIn.chunk_size,
                                             EffOverlap(stIn.chunk_overlap))) - 1

\* C9: every chunk split_text returns is a contiguous run of token
\* positions of the input, the final chunk after a tail merge included.
C9_ChunksContiguous ==
    (call = "split_text" /\ stOut.error = "none") =>
        \A k \in 1..Len(Chunks) :
            \A j \in 1..(Len(Chunks[k]) - 1) : Chunks[k][j + 1] = Chunks[k][j] + 1

\* chunk_overlap (as given or defaulted) is in the accepted range [0, 1].
OverlapAccepted == ~OverlapOutOfRange(EffOverlap(stIn.chunk_overlap))

\* C10: for every chunk_size >= 1 and every accepted chunk_overlap in [0,1],
\* chunk_overlap = 1 included, split_text walks the tokens with a stride of
\* at least 1 and returns a chunk list; it does not fail for a stride of 0.
C10_ReturnsForAcceptedOverlap ==
    (call = "split_text" /\ OverlapAccepted) => stOut.error = "none"

\* C11: document_to_excerpts returns exactly one excerpt per chunk that
\* split_text produced, the k-th excerpt built from the k-th chunk and
\* carrying the source document's id as parent_document_id, whatever the
\* order in which the chunks' _create_excerpt calls finished.
C11_ExcerptsInChunkOrder ==
    dpc = "returned" =>
        /\ Len(excerpts) = Len(DteChunks)
        /\ \A k \in 1..Len(DteChunks) :
              /\ excerpts[k].chunk = DteChunks[k]
              /\ excerpts[k].parent_document_id = dte.id

\* Three excerpts returned, the last chunk's having been the first to finish.
C11_Witness ==
    /\ dpc = "returned"
    /\ Len(excerpts) >= 3
    /\ eorder[1] = Len(excerpts)
    /\ dte.id = "b"

\* C12: when keyword extraction fails for a chunk (the backend missing or
\* raising), document_to_excerpts does not raise.
C12_KeywordFailureTolerated ==
    (\E k \in DOMAIN estate : estate[k] = "kw_failed") => dpc # "raised"

\* C13: a loader built over at least one url returns excerpts, each of them
\* rendered with the loader's excerpt_template when it has one and with the
\* default template when it has none (URLLoader and SitemapLoader).
C13_LoaderTemplateUsed ==
    (lpc \in {"returned", "raised"} /\ loader.nUrls >= 1) =>
        /\ lpc = "returned"
        /\ Len(loaded) >= 1
        /\ \A k \in DOMAIN loaded :
              loaded[k].template = EffTemplate(loader.excerpt_template)

\* C14: given zero-argument async callables, run_concurrent_tasks invokes
\* and awaits each and returns with one result per callable.
C14_CallablesAwaited ==
    (taskForm = "callable" /\ rpc \in {"returned", "raised"}) =>
        /\ rpc = "returned"
        /\ Len(results) = nTasks

\* C15: when every unit succeeds, run_concurrent_tasks returns only after
\* all of them have finished, its result list holds exactly one result per
\* unit, and the results are in completion order: a unit's result is put at
\* the end of the list in the step in which the unit finishes.
C15_ResultsInCompletionOrder ==
    /\ [](rpc = "returned" =>
            /\ \A i \in 1..nTasks : tstate[i] = "done"
            /\ Len(results) = nTasks
            /\ \A i \in 1..nTasks :
                  Cardinality({k \in 1..Len(results) : results[k] = i}) = 1)
    /\ [][rpc = "running" =>
            \A i \in 1..nTasks :
                (tstate[i] = "running" /\ tstate'[i] = "done")
                    => results' = Append(results, i)]_vars

\* Three or more results returned, the last unit submitted having finished first.
C15_Witness ==
    /\ call = "run_concurrent_tasks"
    /\ rpc = "returned"
    /\ nTasks >= 3
    /\ results[1] = nTasks

\* C16: once the caller has cancelled run_concurrent_tasks or upsert_batched
\* with units in flight, no unit that had not started is started, no unit in
\* flight finishes its work (no result appended, no embedding call made, no
\* write issued): each ends cancelled, and the call ends with none running.
C16_CancelStopsUnits ==
    /\ [](rpc = "cancelled" => \A i \in 1..nTasks : tstate[i] \in Terminal)
    /\ []((call = "tpuf.upsert_batched" /\ upc = "cancelled") =>
            \A b \in BatchSet :
                /\ bstate[b] # "embedding"
                /\ (bstate[b] = "notstarted" => b > groupStart + max_concurrent))
    /\ [][callerCancelled =>
            /\ \A i \in 1..nTasks :
                  /\ (tstate[i] = "spawned" => tstate'[i] \in {"spawned", "cancelled"})
                  /\ (tstate[i] = "running" /\ taskForm = "awaitable"
                        => tstate'[i] \in {"running", "cancelled"})
            /\ \A b \in BatchSet :
                  bstate[b] \in {"notstarted", "cancelled"} => bstate'[b] = bstate[b]
            /\ results' = results
            /\ embedCalls' = embedCalls
            /\ writes' = writes]_vars

\* upsert_batched cancelled in its first group: one batch written, one
\* cancelled while embedding, one cancelled before it started, and a later
\* group never started.
C16_Witness ==
    /\ call = "tpuf.upsert_batched"
    /\ upc = "cancelled"
    /\ \E b \in BatchSet : bstate[b] = "done"
    /\ \E b \in BatchSet : bstate[b] = "cancelled" /\ embedCalls[b] = 1
    /\ \E b \in BatchSet : bstate[b] = "cancelled" /\ embedCalls[b] = 0
    /\ \E b \in BatchSet : bstate[b] = "notstarted"

\* The rows a single successful run over the documents leaves.
SingleRunRows == {[id |-> RowId(d, 1), doc |-> d] : d \in 1..nDocs}

\* C17: when TurboPuffer.upsert_batched returns, on its first run or on the
\* re-run that follows a run failed part-way, the namespace holds exactly one
\* row per document id, the rows a single successful run leaves, whatever the
\* interleaving of the batches of either run.
C17_RetryIdempotent ==
    (call = "tpuf.upsert_batched" /\ upc = "returned") =>
        /\ ns = SingleRunRows
        /\ \A d \in 1..nDocs : Cardinality({r \in ns : r.doc = d}) = 1

\* The re-run has returned while a batch of the failed run is still going.
C17_Witness ==
    /\ call = "tpuf.upsert_batched"
    /\ upc = "returned"
    /\ run = 2
    /\ nDocs >= 2
    /\ orphans # {}

\* C18: TurboPuffer.upsert raises ValueError when neither documents nor
\* vectors is given and when documents are given with an explicit text
\* attribute, and in both cases issues no write.
C18_UpsertRejects ==
    (/\ last.op = "upsert"
     /\ IF last.args.documents = "none" THEN last.args.vectors = "none"
        ELSE last.args.documents = "some" /\ last.args.textAttr = "values") =>
        /\ last.out.error = "ValueError"
        /\ last.out.storeCalls = 0

\* C19: TurboPuffer.query with neither text nor vector raises ValueError
\* without an embedding call or a store query; with text it makes exactly
\* one embedding call, issues at most one store query, only once that call
\* has returned, and queries the store with the embedding it returned.
C19_QueryEmbedsFirst ==
    last.op = "query" =>
        /\ (last.args.text # "some" /\ last.args.vector = "none") =>
              /\ last.out.error = "ValueError"
              /\ last.out.embedCalls = 0
              /\ last.out.storeCalls = 0
        /\ last.args.text = "some" =>
              /\ last.out.embedCalls = 1
              /\ last.out.storeCalls <= 1
              /\ (last.out.storeCalls = 1 => last.out.queryVector = "embedding")
              /\ (last.out.error # "UpstreamFailure" => last.out.storeCalls = 1)

\* A query by text answered by the store, after an upsert made the namespace.
C19_Witness ==
    /\ last.op = "query"
    /\ last.prev = "upsert"
    /\ last.args.text = "some"
    /\ last.args.vector = "given"
    /\ last.out.error = "none"
    /\ last.out.storeCalls = 1

\* C20: reset does not raise on a namespace that does not exist (a second
\* reset included) and leaves no namespace; ok() then returns False, and a
\* not-found answer of the store during ok() is returned as False.
C20_ResetIdempotent ==
    /\ last.op = "reset" => (last.out.error = "none" /\ ~nsExists)
    /\ (last.op = "ok" /\ ~nsExists) =>
          (last.out.error = "none" /\ last.out.result = "False")
    /\ (last.op = "ok" /\ last.prev = "reset") => last.out.result = "False"

\* A reset right after a reset, answered not-found by the store.
C20_Witness ==
    /\ last.op = "reset"
    /\ last.prev = "reset"
    /\ last.out.notFound
    /\ opCount = 3

\* C21: create_openai_embeddings makes at most 3 attempts per call; an attempt
\* is followed by another one only if it failed with APIConnectionError; any
\* other failure is raised as it is by the attempt it happened in, without a
\* further attempt (a call whose first attempt fails so makes exactly one);
\* a successful attempt ends the call.
C21_RetryPolicy ==
    call = "create_openai_embeddings" =>
        /\ Len(attempts) <= 3
        /\ \A k \in 1..(Len(attempts) - 1) : attempts[k] = "APIConnectionError"
        /\ epc = "running" => Len(attempts) < 3
        /\ Len(attempts) > 0 =>
            LET o == attempts[Len(attempts)] IN
            /\ o = "ok" => epc = "returned"
            /\ o \notin {"ok", "APIConnectionError"} => epc = "raised" /\ eout = o
            /\ o = "APIConnectionError" =>
                   IF Len(attempts) = 3 THEN epc = "raised" ELSE epc = "running"
        /\ epc = "returned" => Len(attempts) > 0 /\ attempts[Len(attempts)] = "ok"

C21_Witness ==
    /\ call = "create_openai_embeddings"
    /\ epc = "returned"
    /\ attempts = <<"APIConnectionError", "APIConnectionError", "ok">>

C23_SliceExact ==
    call = "slice_tokens" =>
        LET k == Min(slIn.n_tokens, count_tokens(slIn.text)) IN
        /\ count_tokens(slOut) = k
        /\ tokenize(slOut) = SubSeq(tokenize(slIn.text), 1, k)
        /\ count_tokens(slOut) <= slIn.n_tokens

\* C24: split_text called with a chunk_overlap below 0 or above 1 fails with
\* ValueError and returns no chunks; an argument left out takes its default:
\* chunk_overlap omitted is chunk_overlap = 0.1, last_chunk_threshold omitted
\* is last_chunk_threshold = 0.25.
C24_OverlapRangeAndDefaults ==
    call = "split_text" =>
        LET ov == stIn.chunk_overlap
            th == stIn.last_chunk_threshold
        IN /\ (ov # None /\ (ov[1] < 0 \/ ov[1] > ov[2])) =>
                  /\ stOut.error = "ValueError: chunk_overlap must be between 0 and 1"
                  /\ stOut.chunks = <<>>
           /\ ov = None =>
                  stOut = split_text(stIn.n, stIn.chunk_size, <<1, 10>>, th)
           /\ th = None =>
                  stOut = split_text(stIn.n, stIn.chunk_size, ov, <<1, 4>>)
           /\ (ov = None /\ th = None) =>
                  /\ stOut.error = "none"
                  /\ stOut = split_text(stIn.n, stIn.chunk_size, <<1, 10>>, <<1, 4>>)

\* Both arguments left out, on a text cut into chunks that overlap: the
\* second chunk starts with the last token of the first.
C24_Witness ==
    /\ call = "split_text"
    /\ stIn.chunk_overlap = None
    /\ stIn.last_chunk_threshold = None
    /\ Len(stOut.chunks) >= 2
    /\ stOut.chunks[2][1] = stOut.chunks[1][Len(stOut.chunks[1])]

\* C25: the token budget configured on a loader (Loader.chunk_tokens, for
\* GitHubRepoLoader its chunk_size) is the chunk_size with which split_text
\* is run for every document the loader makes into excerpts: for URLLoader,
\* the children of SitemapLoader, PDFLoader and GitHubRepoLoader alike.
C25_LoaderBudgetUsed ==
    /\ (call \in {"GitHubRepoLoader.load", "PDFLoader.load"} /\ dpc # "idle") =>
           /\ dte.chunk_tokens = dte.budget
           /\ DteSplit(dte) = split_text(dte.n, dte.budget, dte.overlap, None)
    /\ (call \in {"URLLoader.load", "SitemapLoader.load"} /\ lpc = "returned") =>
           \A k \in DOMAIN loaded : loaded[k].chunk_size = loader.chunk_tokens

\* C26: in TurboPuffer.upsert_batched every row of every write pairs the id
\* and text of document i with the complete embedding vector of document i,
\* whatever the length of the batch, a batch of exactly one document (for
\* which the embedding helper returns one flat vector) included.
C26_RowsCarryVectors ==
    call = "tpuf.upsert_batched" =>
        \A k \in DOMAIN writes :
            \A d \in (writes[k].lo)..(writes[k].hi) :
                writes[k].vectors[d] = <<"vector", d>>

\* The group (counted from 0) batch b belongs to.
GroupIndex(b) == (b - 1) \div max_concurrent

\* C27: TurboPuffer.upsert_batched works through the batches in consecutive
\* groups of max_concurrent: no batch of a later group starts its embedding
\* call before every batch of each earlier group has finished its write (a
\* slot freed inside a group is not refilled from the next group).
C27_GroupBarrier ==
    call = "tpuf.upsert_batched" =>
        \A b \in BatchSet : \A c \in BatchSet :
            (GroupIndex(c) < GroupIndex(b) /\ embedCalls[b] >= 1) =>
                bstate[c] = "done"

\* A batch of the second group is embedding, in a call with groups of two or
\* more batches.
C27_Witness ==
    /\ call = "tpuf.upsert_batched"
    /\ max_concurrent >= 2
    /\ \E b \in BatchSet : GroupIndex(b) >= 1 /\ bstate[b] = "embedding"

\* C28: GitHubIssueLoader._get_issues returns at most n_issues issues and
\* never the same issue twice, and terminates (every turn of its loop adds an
\* issue, so it makes at most n_issues + 1 requests), for every n_issues >= 0
\* and every size of the repository, against a server that answers page p
\* with per_page s by the items (p-1)*s .. p*s-1.
C28_IssuesBoundedDistinct ==
    call = "_get_issues" =>
        /\ Len(issues) <= gi.n_issues
        /\ \A i \in DOMAIN issues : \A j \in DOMAIN issues :
               i # j => issues[i] # issues[j]
        /\ page - 1 <= Len(issues)
        /\ page <= gi.n_issues + 1

\* C29: in URLLoader.load a url whose load_url raises contributes no document
\* and neither makes load raise nor cancels the other fetches: load returns,
\* and the documents of exactly the urls that loaded are in what it returns.
C29_FailedUrlIsolated ==
    (call = "URLLoader.load" /\ lpc \notin {"idle", "running"}
        /\ ~callerCancelled) =>
        /\ lpc = "returned"
        /\ {loaded[k].url : k \in DOMAIN loaded} = (1..loader.nUrls) \ loader.failing
        /\ \A i \in 1..nTasks : tstate[i] # "cancelled"

\* The calls that have completed a given stage of search_prefect.
CountedTotal ==
    {c \in CallIds : spc[c] \in {"query", "inc_success", "inc_success_locked",
                                 "inc_error", "inc_error_locked", "returned",
                                 "returned_error", "raised"}}
ReturnedResult == {c \in CallIds : spc[c] = "returned"}
ReturnedError == {c \in CallIds : spc[c] = "returned_error"}

\* C30: through any sequence of overlapping search_prefect calls,
\* search_calls_total is the number of calls that passed the empty-query check
\* (and have made that increment), and every call that returned a response
\* has incremented exactly one of search_calls_success and search_calls_error,
\* exactly once (not-found counts as success): success + error never exceeds
\* total and no increment is lost.
C30_CountersExact ==
    call = "search_prefect" =>
        /\ counters.search_calls_total = Cardinality(CountedTotal)
        /\ counters.search_calls_success = Cardinality(ReturnedResult)
        /\ counters.search_calls_error = Cardinality(ReturnedError)
        /\ counters.search_calls_success + counters.search_calls_error
               <= counters.search_calls_total
        /\ (\A c \in CallIds : spc[c] \in {"rejected", "returned",
                                            "returned_error", "raised"}) =>
               counters.search_calls_total =
                   Cardinality({c \in CallIds : spc[c] # "rejected"})

\* Two overlapping calls: one inside the increment of search_calls_success,
\* the other waiting for the lock to increment search_calls_error.
C30_Witness ==
    /\ call = "search_prefect"
    /\ counters.search_calls_total = 2
    /\ \E c \in CallIds : \E d \in CallIds :
           spc[c] = "inc_success_locked" /\ spc[d] = "inc_error"

====
